---- MODULE Spec2Model ----
(***************************************************************************)
(* A model of package darity (src/darity.go, first revision in the file):  *)
(* the KVM Client, the VM it creates, and the VM's memory slots and VCPU.  *)
(*                                                                         *)
(* Every action is one whole exported function.  The ioctl primitive is    *)
(* pluggable (ioctlFunc), so its answer (r, err) is an input of the action *)
(* that calls it.  Machine words are modelled by their values; all values  *)
(* the model uses lie below 2^31, and the width conversions of the code    *)
(* are written out as the reductions they perform.                         *)
(***************************************************************************)
EXTENDS Integers, Sequences, FiniteSets, TLC

\* ------------------------------------------------------------------------
\* Program constants
\* ------------------------------------------------------------------------
Version == 12
kvmCapNrVCPUS == 9
kvmGetAPIVersion == 44544
kvmCreateVM == 44545
kvmCreateVCPU == 44609
kvmSetUserMemoryRegion == 1075883590
MachineTypeDefault == 0
MemoryLogDirtyPages == 1
MemoryReadonly == 2

\* The value os.File.Fd reports for a file that is closed: ^uintptr(0),
\* written here in its two's-complement reading.
InvalidFd == -1

\* ------------------------------------------------------------------------
\* Bounds and input sets
\* ------------------------------------------------------------------------
\* Largest number of slots the primitive accepts on one VM.
MaxSlots == 3
\* The same, where only the layout of the slots is explored.
LayoutSlots == 4
\* The same, for each of two VMs of one Client.
TwoVMSlots == 2
\* Slots a VM has when concurrent callers start on it.
ConcSlots == 1
\* AddMemorySlot calls each concurrent caller makes.
ConcCalls == 1
\* Bytes of host memory the allocator can hand out to live buffers.
HeapLimit == 536870912

\* Address at which the allocator's arena starts.
ArenaBases == {1073741824}
\* Descriptor numbers open(2) hands out for /dev/kvm.
DevFds == {3}
\* Sizes passed to AddMemorySlot; the last one exceeds what can be allocated.
Sizes == {0, 1024, 2048, 1073741824}
\* Sizes passed to AddMemorySlot where only the layout is explored.
LayoutSizes == {0, 512, 1024, 2048, 134217728}
Flags == {0, MemoryReadonly}
\* Versions the get-version request reports.
Versions == {11, 12, 13}
\* Descriptors the create-VM and create-VCPU requests report.
VMFds == {4, 5}
VCPUFds == {6, 7}
VCPUCounts == {0, 9, 10}
\* Results of the set-user-memory-region request: 0 accepts the region.
RegionResults == {0, 1}
MachineTypes == {MachineTypeDefault, 2}
\* Errors the primitive reports (os.NewSyscallError values).
Nil == "nil"
Errnos == {"EINVAL"}

\* Errors the package itself returns.
ErrIncorrectVersion == "ErrIncorrectVersion"
ErrTooManyVCPUS == "ErrTooManyVCPUS"
ErrAddMemorySlot == "failed to add memory slot"
ErrOpen == "ErrOpen"
ErrClosed == "ErrClosed"

\* ------------------------------------------------------------------------
\* Width conversions
\* ------------------------------------------------------------------------
Shr16(x) == x \div 65536

\* uint32(x) for x >= 0: x minus its bits from 2^32 upwards.
ToUint32(x) == x - Shr16(Shr16(x)) * 65536 * 65536

\* Unsigned 64-bit addition: the sum minus its bits from 2^64 upwards.
U64Add(a, b) ==
    LET s == a + b
    IN  s - Shr16(Shr16(Shr16(Shr16(s)))) * 65536 * 65536 * 65536 * 65536

\* int(v) for a uintptr v of the same width: values from 2^63 upwards
\* become negative.
ToInt(v) ==
    v - 2 * (Shr16(Shr16(Shr16(v))) \div 32768) * 32768 * 65536 * 65536 * 65536

\* ------------------------------------------------------------------------
\* State
\* ------------------------------------------------------------------------
VARIABLES
    client,    \* "none" or "held": does the caller hold a *Client
    kvm,       \* the Client's os.File: [state, num]
    vm,        \* the VM the caller holds: [exists, Memory, fd, vcpufd, ioctl]
    arena,     \* start address of the allocator's arena
    calls,     \* the calls the last operation made to the primitive
    last,      \* the last operation: its arguments, the answer, its result
    pre,       \* vm, kvm and client as they were before the last operation
    released,  \* how often the descriptor of kvm has been released
    accepted,  \* the sizes of the regions the primitive has accepted, in order
    hist,      \* what the primitive returned for vm: [vmfd, vcpu]
    other,     \* a second VM the caller holds: [vm, accepted, hist]
    conc       \* AddMemorySlot calls in progress on vm: [useLock, lock, t]

vars == <<client, kvm, vm, arena, calls, last, pre, released, accepted, hist,
          other, conc>>

NoVM == [exists |-> FALSE, Memory |-> <<>>, fd |-> 0, vcpufd |-> 0,
         ioctl |-> "none"]

NoResp == [r |-> 0, err |-> "none"]

NoRegion == [slot |-> 0, flags |-> 0, guestPhysAddr |-> 0, memorySize |-> 0,
             userspaceAddr |-> 0]

\* Nothing returned yet: no VM created, and the zero value of VM.vcpufd.
NoHist == [vmfd |-> 0, vcpu |-> 0]

\* No second VM.
NoOther == [vm |-> NoVM, accepted |-> <<>>, hist |-> NoHist]

\* No AddMemorySlot call in progress.
NoConc == [useLock |-> FALSE, lock |-> 0, t |-> <<>>]

\* One call of the ioctlFunc: the descriptor, the request number, and argp,
\* which is a scalar (val) or the address of a kvmUserspaceMemoryRegion (m).
\* open records whether the file f of the Client was open when the call was
\* made.
Call(f, fd, request, isPtr, val, m) ==
    [fd |-> fd, request |-> request, ptr |-> isPtr, val |-> val, m |-> m,
     open |-> f.state = "open"]

Responses(Rs) == [r : Rs, err : {Nil} \cup Errnos]

\* What an operation reports: op and its arguments, the primitive's answer
\* (NoResp if it was not called), the error returned, the value returned,
\* and whether the call panicked instead of returning.
Outcome(op, n, flags, resp, err, ret, panicked) ==
    [op |-> op, n |-> n, flags |-> flags, resp |-> resp, err |-> err,
     ret |-> ret, panicked |-> panicked]

Snapshot == [vm |-> vm, kvm |-> kvm, client |-> client]

\* The os.File of the Client: state is "unopened", "open" or "closed"; num is
\* the descriptor number open(2) returned, kept after the file is closed to
\* name the descriptor that was released.
NoFile == [state |-> "unopened", num |-> InvalidFd]

\* os.File.Fd: the descriptor of an open file, ^uintptr(0) otherwise.
Fd(f) == IF f.state = "open" THEN f.num ELSE InvalidFd

\* os.File.Close: the file is closed afterwards.
Closed(f) == [f EXCEPT !.state = "closed"]

\* As VersionOK, accepting every version from Version upwards.
VersionOKAtLeast(version) == version >= Version

\* version != Version fails New.
VersionOK(version) == version = Version

\* As NewVM, with the slots of the VM the caller already holds.
NewVMSharingMemory(v) ==
    [exists |-> TRUE, Memory |-> other.vm.Memory, fd |-> v, vcpufd |-> 0,
     ioctl |-> "c.ioctl"]

\* As NewVM, with the descriptor of the first VM in place of v.
NewVMFirstFd(v) ==
    [exists |-> TRUE, Memory |-> <<>>, fd |-> 4, vcpufd |-> 0,
     ioctl |-> "c.ioctl"]

\* The VM CreateVM builds around the descriptor v the primitive returned.
NewVM(v) ==
    [exists |-> TRUE, Memory |-> <<>>, fd |-> v, vcpufd |-> 0,
     ioctl |-> "c.ioctl"]

Init ==
    /\ client = "none"
    /\ kvm = NoFile
    /\ vm = NoVM
    /\ arena \in ArenaBases
    /\ calls = <<>>
    /\ last = Outcome("init", 0, 0, NoResp, Nil, 0, FALSE)
    /\ pre = [vm |-> NoVM, kvm |-> NoFile, client |-> "none"]
    /\ released = 0
    /\ accepted = <<>>
    /\ hist = NoHist
    /\ other = NoOther
    /\ conc = NoConc

\* ------------------------------------------------------------------------
\* Client
\* ------------------------------------------------------------------------

\* New, when os.OpenFile fails: no Client, no request.
NewOpenFails ==
    /\ client = "none"
    /\ pre' = Snapshot
    /\ calls' = <<>>
    /\ last' = Outcome("New", 0, 0, NoResp, ErrOpen, 0, FALSE)
    /\ UNCHANGED <<client, kvm, vm, arena, released, accepted, hist, other,
                   conc>>

\* As New, returning the error of the get-version request without closing
\* the file.
NewLeavesOpenOnError(fd, resp) ==
    LET opened == [state |-> "open", num |-> fd]
        call == Call(opened, Fd(opened), kvmGetAPIVersion, FALSE, 0, NoRegion)
        version == ToInt(resp.r)
    IN  /\ client = "none"
        /\ pre' = Snapshot
        /\ calls' = <<call>>
        /\ IF resp.err # Nil
             THEN /\ client' = "none"
                  /\ kvm' = opened
                  /\ released' = 0
                  /\ last' = Outcome("New", 0, 0, resp, resp.err, 0, FALSE)
             ELSE IF version = Version
             THEN /\ client' = "held"
                  /\ kvm' = opened
                  /\ released' = 0
                  /\ last' = Outcome("New", 0, 0, resp, Nil, 0, FALSE)
             ELSE /\ client' = "none"
                  /\ kvm' = Closed(opened)
                  /\ released' = 1
                  /\ last' = Outcome("New", 0, 0, resp, ErrIncorrectVersion,
                                     0, FALSE)
        /\ UNCHANGED <<vm, arena, accepted, hist, other, conc>>

\* New, when os.OpenFile returns descriptor fd and the get-version request
\* is answered with resp.
New(fd, resp) ==
    LET opened == [state |-> "open", num |-> fd]
        call == Call(opened, Fd(opened), kvmGetAPIVersion, FALSE, 0, NoRegion)
        version == ToInt(resp.r)
        ok == resp.err = Nil /\ VersionOK(version)
    IN  /\ client = "none"
        /\ pre' = Snapshot
        /\ calls' = <<call>>
        /\ IF ok
             THEN /\ client' = "held"
                  /\ kvm' = opened
                  /\ released' = 0
                  /\ last' = Outcome("New", 0, 0, resp, Nil, 0, FALSE)
             ELSE /\ client' = "none"
                  /\ kvm' = Closed(opened)
                  /\ released' = 1
                  /\ last' = Outcome("New", 0, 0, resp,
                                     IF resp.err # Nil THEN resp.err
                                     ELSE ErrIncorrectVersion, 0, FALSE)
        /\ UNCHANGED <<vm, arena, accepted, hist, other, conc>>

\* Close: os.File.Close releases the descriptor of an open file and fails
\* on a file that is already closed.
Close ==
    /\ client = "held"
    /\ pre' = Snapshot
    /\ calls' = <<>>
    /\ IF kvm.state = "open"
         THEN /\ kvm' = Closed(kvm)
              /\ released' = released + 1
              /\ last' = Outcome("Close", 0, 0, NoResp, Nil, 0, FALSE)
         ELSE /\ UNCHANGED <<kvm, released>>
              /\ last' = Outcome("Close", 0, 0, NoResp, ErrClosed, 0, FALSE)
    /\ UNCHANGED <<client, vm, arena, accepted, hist, other, conc>>

\* As APIVersion, returning a nil error whatever the primitive reported.
APIVersionDropsErr(resp) ==
    /\ client = "held"
    /\ pre' = Snapshot
    /\ calls' = <<Call(kvm, Fd(kvm), kvmGetAPIVersion, FALSE, 0, NoRegion)>>
    /\ last' = Outcome("APIVersion", 0, 0, resp, Nil, ToInt(resp.r), FALSE)
    /\ UNCHANGED <<client, kvm, vm, arena, released, accepted, hist, other,
                   conc>>

APIVersion(resp) ==
    /\ client = "held"
    /\ pre' = Snapshot
    /\ calls' = <<Call(kvm, Fd(kvm), kvmGetAPIVersion, FALSE, 0, NoRegion)>>
    /\ last' = Outcome("APIVersion", 0, 0, resp, resp.err, ToInt(resp.r),
                       FALSE)
    /\ UNCHANGED <<client, kvm, vm, arena, released, accepted, hist, other,
                   conc>>

\* The caller creates one VM.
CreateVM(t, resp) ==
    /\ client = "held"
    /\ ~vm.exists
    /\ pre' = Snapshot
    /\ calls' = <<Call(kvm, Fd(kvm), kvmCreateVM, FALSE, t, NoRegion)>>
    /\ IF resp.err # Nil
         THEN /\ last' = Outcome("CreateVM", t, 0, resp, resp.err, 0, FALSE)
              /\ UNCHANGED <<vm, hist>>
         ELSE /\ last' = Outcome("CreateVM", t, 0, resp, Nil, resp.r, FALSE)
              /\ vm' = NewVM(resp.r)
              /\ hist' = [vmfd |-> resp.r, vcpu |-> 0]
    /\ UNCHANGED <<client, kvm, arena, released, accepted, other, conc>>

\* ------------------------------------------------------------------------
\* VM
\* ------------------------------------------------------------------------

\* Bytes held by the backing buffers the slots of mem retain.
RECURSIVE LiveBytes(_)
LiveBytes(mem) ==
    IF mem = <<>> THEN 0
    ELSE LiveBytes(SubSeq(mem, 1, Len(mem) - 1)) + mem[Len(mem)].memory.len

\* The backing buffers of the slots of mem.
Buffers(mem) == {mem[i].memory : i \in 1..Len(mem)}

\* make([]byte, n): the runtime panics when n bytes cannot be allocated.
\* A buffer that was allocated lies behind the buffers that are still live.
\* The buffers of every VM the caller holds are live.
HeapInUse == LiveBytes(vm.Memory) + LiveBytes(other.vm.Memory)
CanMake(n) == n <= HeapLimit - HeapInUse
BufferAddr == arena + HeapInUse

\* As NextSlot, counting from one.
NextSlotFromOne(mem) == ToUint32(Len(mem)) + 1

\* Slot increments with MemorySlots added to the VM.
NextSlot(mem) == ToUint32(Len(mem))

\* As NextGuestPhysAddr, leaving out the address of the previous slot.
NextGuestPhysAddrSizeOnly(mem) ==
    IF Len(mem) > 0 THEN mem[Len(mem)].MemorySize ELSE 0

\* As NextGuestPhysAddr, leaving out the size of the previous slot.
NextGuestPhysAddrBaseOnly(mem) ==
    IF Len(mem) > 0 THEN mem[Len(mem)].GuestPhysAddr ELSE 0

\* Physical address starts at 0, and increments by the offset and memory
\* size of the previous slot.
NextGuestPhysAddr(mem) ==
    IF Len(mem) > 0
      THEN U64Add(mem[Len(mem)].GuestPhysAddr, mem[Len(mem)].MemorySize)
      ELSE 0

\* As AddMemorySlotErr, without the check of the result r.
AddMemorySlotErrIgnoresResult(resp) ==
    IF resp.err # Nil THEN resp.err ELSE Nil

\* As AddMemorySlotErr, without the check of the primitive's error.
AddMemorySlotErrIgnoresErr(resp) ==
    IF resp.r # 0 THEN ErrAddMemorySlot ELSE Nil

\* The error AddMemorySlot returns for the primitive's answer.
AddMemorySlotErr(resp) ==
    IF resp.err # Nil THEN resp.err
    ELSE IF resp.r # 0 THEN ErrAddMemorySlot
    ELSE Nil

\* As StoredSlot, without the flags.
StoredSlotWithoutFlags(m, memory) ==
    [Slot |-> m.slot, Flags |-> 0, GuestPhysAddr |-> m.guestPhysAddr,
     MemorySize |-> m.memorySize, UserspaceAddr |-> m.userspaceAddr,
     memory |-> memory]

\* The record AddMemorySlot stores for the region m backed by buffer memory.
StoredSlot(m, memory) ==
    [Slot |-> m.slot, Flags |-> m.flags, GuestPhysAddr |-> m.guestPhysAddr,
     MemorySize |-> m.memorySize, UserspaceAddr |-> m.userspaceAddr,
     memory |-> memory]

\* As AppendSlot, writing over the last record instead of growing.
AppendSlotInPlace(mem, s) ==
    IF mem = <<>> THEN <<s>> ELSE [mem EXCEPT ![Len(mem)] = s]

\* v.Memory = append(v.Memory, ...)
AppendSlot(mem, s) == Append(mem, s)

\* As VMFd, with the descriptor of the Client's file.
VMFdOfClient(v) == Fd(kvm)

\* v.fd, the descriptor the requests of a VM are sent on.
VMFd(v) == v.fd

AddMemorySlot(n, flags, resp) ==
    LET memory == [addr |-> BufferAddr, len |-> n]
        m == [slot |-> NextSlot(vm.Memory), flags |-> flags,
              guestPhysAddr |-> NextGuestPhysAddr(vm.Memory),
              memorySize |-> n, userspaceAddr |-> memory.addr]
        err == AddMemorySlotErr(resp)
    IN  /\ vm.exists
        /\ pre' = Snapshot
        /\ IF ~CanMake(n) \/ n = 0
             THEN \* make panics, or &memory[0] indexes an empty slice
                  /\ calls' = <<>>
                  /\ last' = Outcome("AddMemorySlot", n, flags, NoResp, Nil,
                                     0, TRUE)
                  /\ UNCHANGED <<vm, accepted>>
             ELSE /\ calls' = <<Call(kvm, VMFd(vm), kvmSetUserMemoryRegion,
                                     TRUE, 0, m)>>
                  /\ last' = Outcome("AddMemorySlot", n, flags, resp, err, 0,
                                     FALSE)
                  /\ accepted' = IF resp.r = 0 /\ resp.err = Nil
                                    THEN Append(accepted, n) ELSE accepted
                  /\ IF err = Nil
                       THEN vm' = [vm EXCEPT !.Memory =
                                       AppendSlot(@, StoredSlot(m, memory))]
                       ELSE UNCHANGED vm
        /\ UNCHANGED <<client, kvm, arena, released, hist, other, conc>>

\* As TooManyVCPUS, with the cap one too high.
TooManyVCPUSAboveCap(n) == n > kvmCapNrVCPUS + 1

\* As TooManyVCPUS, refusing the cap itself.
TooManyVCPUSAtCap(n) == n >= kvmCapNrVCPUS

\* n > kvmCapNrVCPUS
TooManyVCPUS(n) == n > kvmCapNrVCPUS

\* As StoreVCPU, assigning the descriptor of the VM.
StoreVCPUAsFd(v, r) == [v EXCEPT !.fd = r]

\* As StoreVCPU, keeping a handle that is already stored.
StoreVCPUOnce(v, r) == IF v.vcpufd = 0 THEN [v EXCEPT !.vcpufd = r] ELSE v

\* v.vcpufd = r
StoreVCPU(v, r) == [v EXCEPT !.vcpufd = r]

AddVCPU(n, resp) ==
    /\ vm.exists
    /\ pre' = Snapshot
    /\ IF TooManyVCPUS(n)
         THEN /\ calls' = <<>>
              /\ last' = Outcome("AddVCPU", n, 0, NoResp, ErrTooManyVCPUS, 0,
                                 FALSE)
              /\ UNCHANGED <<vm, hist>>
         ELSE /\ calls' = <<Call(kvm, VMFd(vm), kvmCreateVCPU, FALSE, n,
                                 NoRegion)>>
              /\ last' = Outcome("AddVCPU", n, 0, resp, resp.err, 0, FALSE)
              /\ IF resp.err # Nil
                   THEN UNCHANGED <<vm, hist>>
                   ELSE /\ vm' = StoreVCPU(vm, resp.r)
                        /\ hist' = [hist EXCEPT !.vcpu = resp.r]
    /\ UNCHANGED <<client, kvm, arena, released, accepted, other, conc>>

\* The primitive accepts a region only while the VM has fewer than max slots.
Accepts(resp, max) ==
    Len(vm.Memory) < max \/ resp.r # 0 \/ resp.err # Nil

Next ==
    \/ NewOpenFails
    \/ \E fd \in DevFds, resp \in Responses(Versions) : New(fd, resp)
    \/ Close
    \/ \E resp \in Responses(Versions) : APIVersion(resp)
    \/ \E t \in MachineTypes, resp \in Responses(VMFds) : CreateVM(t, resp)
    \/ \E n \in VCPUCounts, resp \in Responses(VCPUFds) : AddVCPU(n, resp)
    \/ \E n \in Sizes, flags \in Flags, resp \in Responses(RegionResults) :
          Accepts(resp, MaxSlots) /\ AddMemorySlot(n, flags, resp)

Spec == Init /\ [][Next]_vars

\* The layout of the slots alone: one Client, one VM, and AddMemorySlot with
\* the sizes of LayoutSizes.
LayoutNext ==
    \/ \E fd \in DevFds : New(fd, [r |-> Version, err |-> Nil])
    \/ \E r \in VMFds : CreateVM(MachineTypeDefault, [r |-> r, err |-> Nil])
    \/ \E n \in LayoutSizes, resp \in Responses(RegionResults) :
          Accepts(resp, LayoutSlots) /\ AddMemorySlot(n, 0, resp)

LayoutSpec == Init /\ [][LayoutNext]_vars

\* Two VMs of one Client.  vm is the receiver of the next VM method call and
\* other the VM set aside; Select is the caller turning to its other VM (or to
\* the variable in which CreateVM will put its second VM).
Select ==
    /\ client = "held"
    /\ vm.exists \/ other.vm.exists
    /\ vm' = other.vm
    /\ accepted' = other.accepted
    /\ hist' = other.hist
    /\ other' = [vm |-> vm, accepted |-> accepted, hist |-> hist]
    /\ pre' = Snapshot
    /\ calls' = <<>>
    /\ last' = Outcome("Select", 0, 0, NoResp, Nil, 0, FALSE)
    /\ UNCHANGED <<client, kvm, arena, released, conc>>

TwoVMSizes == {1024, 2048}

TwoVMNext ==
    \/ \E fd \in DevFds : New(fd, [r |-> Version, err |-> Nil])
    \/ \E r \in VMFds : CreateVM(MachineTypeDefault, [r |-> r, err |-> Nil])
    \/ Select
    \/ \E r \in VCPUFds : AddVCPU(kvmCapNrVCPUS, [r |-> r, err |-> Nil])
    \/ \E n \in TwoVMSizes, r \in RegionResults :
          /\ Accepts([r |-> r, err |-> Nil], TwoVMSlots)
          /\ AddMemorySlot(n, 0, [r |-> r, err |-> Nil])

TwoVMSpec == Init /\ [][TwoVMNext]_vars

\* ------------------------------------------------------------------------
\* Two threads of control calling AddMemorySlot on one VM
\* ------------------------------------------------------------------------

Threads == {1, 2}
ConcSizes == {1024, 2048}

\* A caller between calls: pc is its position, done the calls it completed,
\* memory and m the locals of AddMemorySlot, loaded the slice header that
\* append read.
IdleThread ==
    [pc |-> "idle", done |-> 0, m |-> NoRegion,
     memory |-> [addr |-> 0, len |-> 0], loaded |-> <<>>]

\* The buffers the collector must keep: those of the stored slots and those
\* held in the locals of a call in progress.
ConcLive ==
    Buffers(vm.Memory)
       \cup {conc.t[i].memory : i \in {j \in Threads : conc.t[j].pc # "idle"}}

SetMax(S) == CHOOSE x \in S : \A y \in S : y <= x

\* make([]byte, n) while other calls are in progress.
ConcBufferAddr == SetMax({arena} \cup {b.addr + b.len : b \in ConcLive})

\* The caller starts its two threads on the VM, which take a mutex around
\* each whole call (useLock) or take none.
ConcStart(useLock) ==
    /\ vm.exists
    /\ conc = NoConc
    /\ conc' = [useLock |-> useLock, lock |-> 0,
                t |-> [i \in Threads |-> IdleThread]]
    /\ UNCHANGED <<client, kvm, vm, arena, calls, last, pre, released,
                   accepted, hist, other>>

\* The lock after thread i has returned from its call.
Unlocked(i) == IF conc.useLock /\ conc.lock = i THEN 0 ELSE conc.lock

\* Thread i enters AddMemorySlot(n, 0): it allocates the buffer and reads
\* v.Memory for the slot index and the base address.
ConcRead(i, n) ==
    LET memory == [addr |-> ConcBufferAddr, len |-> n]
        m == [slot |-> NextSlot(vm.Memory), flags |-> 0,
              guestPhysAddr |-> NextGuestPhysAddr(vm.Memory),
              memorySize |-> n, userspaceAddr |-> memory.addr]
    IN  /\ conc # NoConc
        /\ conc.t[i].pc = "idle"
        /\ conc.t[i].done < ConcCalls
        /\ conc.useLock => conc.lock = 0
        /\ conc' = [conc EXCEPT !.lock = IF conc.useLock THEN i ELSE 0,
                                !.t[i] = [@ EXCEPT !.pc = "read", !.m = m,
                                                   !.memory = memory]]
        /\ UNCHANGED <<client, kvm, vm, arena, calls, last, pre, released,
                       accepted, hist, other>>

\* As ConcRequest, with the mutex given up as soon as the request returns.
ConcRequestThenUnlock(i, resp) ==
    LET t == conc.t[i]
        err == AddMemorySlotErr(resp)
    IN  /\ conc # NoConc
        /\ t.pc = "read"
        /\ pre' = Snapshot
        /\ calls' = <<Call(kvm, VMFd(vm), kvmSetUserMemoryRegion, TRUE, 0,
                           t.m)>>
        /\ last' = Outcome("AddMemorySlot", t.m.memorySize, 0, resp, err, 0,
                           FALSE)
        /\ accepted' = IF resp.r = 0 /\ resp.err = Nil
                          THEN Append(accepted, t.m.memorySize) ELSE accepted
        /\ conc' = IF err = Nil
                     THEN [conc EXCEPT !.lock = Unlocked(i),
                                       !.t[i].pc = "accepted"]
                     ELSE [conc EXCEPT !.lock = Unlocked(i),
                                       !.t[i].pc = "idle",
                                       !.t[i].done = @ + 1]
        /\ UNCHANGED <<client, kvm, vm, arena, released, hist, other>>

\* Thread i issues its request; a refused request ends the call.
ConcRequest(i, resp) ==
    LET t == conc.t[i]
        err == AddMemorySlotErr(resp)
    IN  /\ conc # NoConc
        /\ t.pc = "read"
        /\ pre' = Snapshot
        /\ calls' = <<Call(kvm, VMFd(vm), kvmSetUserMemoryRegion, TRUE, 0,
                           t.m)>>
        /\ last' = Outcome("AddMemorySlot", t.m.memorySize, 0, resp, err, 0,
                           FALSE)
        /\ accepted' = IF resp.r = 0 /\ resp.err = Nil
                          THEN Append(accepted, t.m.memorySize) ELSE accepted
        /\ conc' = IF err = Nil
                     THEN [conc EXCEPT !.t[i].pc = "accepted"]
                     ELSE [conc EXCEPT !.lock = Unlocked(i),
                                       !.t[i].pc = "idle",
                                       !.t[i].done = @ + 1]
        /\ UNCHANGED <<client, kvm, vm, arena, released, hist, other>>

\* append reads the slice header of v.Memory.
ConcLoad(i) ==
    /\ conc # NoConc
    /\ conc.t[i].pc = "accepted"
    /\ conc' = [conc EXCEPT !.t[i].pc = "loaded", !.t[i].loaded = vm.Memory]
    /\ UNCHANGED <<client, kvm, vm, arena, calls, last, pre, released,
                   accepted, hist, other>>

\* The grown slice is assigned to v.Memory, and the call returns.
ConcStore(i) ==
    LET t == conc.t[i]
    IN  /\ conc # NoConc
        /\ t.pc = "loaded"
        /\ vm' = [vm EXCEPT !.Memory =
                      AppendSlot(t.loaded, StoredSlot(t.m, t.memory))]
        /\ conc' = [conc EXCEPT !.lock = Unlocked(i), !.t[i].pc = "idle",
                                !.t[i].done = @ + 1, !.t[i].loaded = <<>>]
        /\ UNCHANGED <<client, kvm, arena, calls, last, pre, released,
                       accepted, hist, other>>

ConcNext ==
    \/ \E fd \in DevFds : New(fd, [r |-> Version, err |-> Nil])
    \/ \E r \in VMFds : CreateVM(MachineTypeDefault, [r |-> r, err |-> Nil])
    \/ \E n \in ConcSizes :
          /\ conc = NoConc
          /\ Len(vm.Memory) < ConcSlots
          /\ AddMemorySlot(n, 0, [r |-> 0, err |-> Nil])
    \/ \E useLock \in BOOLEAN : ConcStart(useLock)
    \/ \E i \in Threads, n \in ConcSizes : ConcRead(i, n)
    \/ \E i \in Threads, r \in RegionResults :
          ConcRequest(i, [r |-> r, err |-> Nil])
    \/ \E i \in Threads : ConcLoad(i)
    \/ \E i \in Threads : ConcStore(i)

ConcSpec == Init /\ [][ConcNext]_vars

\* ------------------------------------------------------------------------
\* Properties
\* ------------------------------------------------------------------------

\* The primitive answered the last operation with result r and no error.
Answered(op) == last.op = op /\ last.resp.err = Nil

\* The primitive accepted the region of the last AddMemorySlot.
RegionAccepted == Answered("AddMemorySlot") /\ last.resp.r = 0

\* The primitive rejected the region of the last AddMemorySlot with a
\* non-zero result and no error.
RegionRejected == Answered("AddMemorySlot") /\ last.resp.r # 0

\* C1: when the get-version request of New is answered with version V and no
\* error, New returns a Client iff V = 12; for V # 12 it returns
\* ErrIncorrectVersion and no Client, the descriptor has been released once,
\* and the only call to the primitive was made while the descriptor was open.
C1_VersionGate ==
    Answered("New") =>
        /\ (client = "held") <=> (last.resp.r = 12)
        /\ (last.err = Nil) <=> (last.resp.r = 12)
        /\ last.resp.r # 12 =>
              /\ last.err = ErrIncorrectVersion
              /\ client = "none"
              /\ kvm.state = "closed"
              /\ released = 1
              /\ Len(calls) = 1
              /\ calls[1].open

C1_Witness ==
    /\ Answered("New")
    /\ last.resp.r = 13
    /\ last.err = ErrIncorrectVersion
    /\ kvm.state = "closed"

\* C2: the record at position i of vm.Memory (counting from 0) has Slot = i,
\* whatever AddMemorySlot and AddVCPU calls were made, and the k-th region
\* the primitive accepts was sent with slot k-1.
C2_SlotIndicesDense ==
    /\ \A i \in 1..Len(vm.Memory) : vm.Memory[i].Slot = i - 1
    /\ RegionAccepted =>
          /\ Len(calls) = 1
          /\ calls[1].m.slot = Len(accepted) - 1

C2_Witness ==
    /\ Len(vm.Memory) = 3
    /\ vm.vcpufd = 7
    /\ RegionRejected
    /\ vm.Memory[3].Slot = 2

RECURSIVE SumSeq(_)
SumSeq(s) == IF s = <<>> THEN 0 ELSE s[1] + SumSeq(Tail(s))

GuestPhysAddrs == [i \in 1..Len(vm.Memory) |-> vm.Memory[i].GuestPhysAddr]

\* C3: after successful AddMemorySlot calls with sizes s0..sN-1 on a fresh VM,
\* slot i has GuestPhysAddr s0 + ... + s(i-1), and that is the guestPhysAddr
\* sent in its request; sizes 1024, 2048, 512 give 0, 1024, 3072, and four
\* sizes of 134217728 give 0, 134217728, 268435456, 402653184.
C3_AddressPacking ==
    /\ Len(vm.Memory) = Len(accepted)
    /\ \A i \in 1..Len(vm.Memory) :
          vm.Memory[i].GuestPhysAddr = SumSeq(SubSeq(accepted, 1, i - 1))
    /\ RegionAccepted =>
          /\ Len(calls) = 1
          /\ calls[1].m.guestPhysAddr =
                SumSeq(SubSeq(accepted, 1, Len(accepted) - 1))
    /\ accepted = <<1024, 2048, 512>> => GuestPhysAddrs = <<0, 1024, 3072>>
    /\ accepted = <<134217728, 134217728, 134217728, 134217728>> =>
          GuestPhysAddrs = <<0, 134217728, 268435456, 402653184>>

C3_Witness ==
    /\ accepted = <<134217728, 134217728, 134217728, 134217728>>
    /\ Len(vm.Memory) = 4
    /\ vm.Memory[4].GuestPhysAddr = 402653184
    /\ RegionAccepted

\* C4: when the primitive answers the request of AddMemorySlot with a non-zero
\* result and no error, the call returns an error and vm.Memory is what it was
\* before the call; an AddMemorySlot call that follows sends the slot and the
\* guestPhysAddr the rejected call sent.
C4_RejectedState ==
    RegionRejected =>
        /\ last.err # Nil
        /\ ~last.panicked
        /\ vm.Memory = pre.vm.Memory

C4_RejectedThenRetried ==
    (RegionRejected /\ last'.op = "AddMemorySlot" /\ calls' # <<>>) =>
        /\ calls # <<>>
        /\ calls'[1].m.slot = calls[1].m.slot
        /\ calls'[1].m.guestPhysAddr = calls[1].m.guestPhysAddr

C4_RejectionLeavesNoTrace ==
    [] C4_RejectedState /\ [][C4_RejectedThenRetried]_vars

C4_Witness ==
    /\ RegionRejected
    /\ Len(pre.vm.Memory) = 2
    /\ Len(vm.Memory) = 2
    /\ calls[1].m.slot = 2

\* C5: when the primitive reports an error to AddMemorySlot, AddVCPU or
\* CreateVM, the operation returns that error and the VM is what it was before:
\* same Memory, same VCPU handle, and no VM after a failed CreateVM.
C5_PrimitiveErrorNotApplied ==
    (last.op \in {"AddMemorySlot", "AddVCPU", "CreateVM"}
        /\ last.resp.err \in Errnos) =>
        /\ last.err = last.resp.err
        /\ vm = pre.vm
        /\ last.op = "CreateVM" => ~vm.exists

C5_Witness ==
    /\ last.op = "AddMemorySlot"
    /\ last.resp = [r |-> 0, err |-> "EINVAL"]
    /\ Len(vm.Memory) = 1
    /\ vm.vcpufd = 6

\* The request code documented for each operation.
RequestCode(op) ==
    CASE op = "APIVersion" -> 44544
      [] op = "CreateVM" -> 44545
      [] op = "AddMemorySlot" -> 1075883590
      [] op = "AddVCPU" -> 44609

PublicOps == {"APIVersion", "CreateVM", "AddMemorySlot", "AddVCPU"}

\* C6 as stated: each of APIVersion, CreateVM, AddMemorySlot and AddVCPU makes
\* exactly one call to the primitive, with its documented request code, for
\* every argument and every answer.
C6_ExactlyOneRequest ==
    last.op \in PublicOps =>
        /\ Len(calls) = 1
        /\ calls[1].request = RequestCode(last.op)

\* The last operation is one that ends before it reaches the primitive:
\* AddVCPU above the cap, or AddMemorySlot whose buffer of n bytes cannot be
\* made or has no first byte.
EndsBeforeRequest ==
    \/ last.op = "AddVCPU" /\ last.n > 9
    \/ /\ last.op = "AddMemorySlot"
       /\ \/ last.n = 0
          \/ last.n > HeapLimit - LiveBytes(pre.vm.Memory)

\* C6 as amended: each of the four operations makes at most one call to the
\* primitive, always with its documented request code; it makes exactly one
\* unless it is AddVCPU(n) with n above the cap or an AddMemorySlot that
\* panics before the request (size 0, or a size that cannot be allocated),
\* and then it makes none.
C6_AtMostOneRequest ==
    last.op \in PublicOps =>
        /\ Len(calls) <= 1
        /\ \A i \in 1..Len(calls) : calls[i].request = RequestCode(last.op)
        /\ (Len(calls) = 0) <=> EndsBeforeRequest

C6_Witness ==
    /\ last.op = "AddVCPU"
    /\ last.n = 9
    /\ last.resp.err = "EINVAL"
    /\ Len(calls) = 1
    /\ calls[1].request = 44609

\* C7: AddVCPU(n) with n above the cap returns ErrTooManyVCPUS, makes no call
\* to the primitive, and leaves the VCPU handle and Memory of the VM unchanged.
C7_VCPUCap ==
    (last.op = "AddVCPU" /\ last.n > 9) =>
        /\ last.err = ErrTooManyVCPUS
        /\ calls = <<>>
        /\ vm.vcpufd = pre.vm.vcpufd
        /\ vm.Memory = pre.vm.Memory

C7_Witness ==
    /\ last.op = "AddVCPU"
    /\ last.n = 10
    /\ vm.vcpufd = 6
    /\ Len(vm.Memory) = 1

\* C8 as stated: AddMemorySlot(0, flags) returns instead of panicking, and
\* sends one request whose memorySize is 0.
C8_ZeroSizeReachesPrimitive ==
    (last.op = "AddMemorySlot" /\ last.n = 0) =>
        /\ ~last.panicked
        /\ Len(calls) = 1
        /\ calls[1].request = 1075883590
        /\ calls[1].m.memorySize = 0

\* C9 as stated: no operation of the Client calls the primitive once the
\* descriptor of the Client has been closed, and the descriptor is released
\* at most once.
C9_NoRequestAfterClose ==
    /\ last.op \in {"New", "APIVersion", "CreateVM", "Close"} =>
          \A i \in 1..Len(calls) : calls[i].open
    /\ released <= 1

\* C10: a successful CreateVM(t) makes the create-VM request on the handle of
\* the Client with t as scalar argument, and returns a VM whose handle is the
\* value the primitive returned, whose Memory is empty, and whose primitive is
\* that of the Client.
C10_CreateVM ==
    (last.op = "CreateVM" /\ last.err = Nil) =>
        /\ Len(calls) = 1
        /\ calls[1].fd = Fd(pre.kvm)
        /\ calls[1].request = 44545
        /\ ~calls[1].ptr
        /\ calls[1].val = last.n
        /\ ~pre.vm.exists
        /\ vm.exists
        /\ vm.fd = last.resp.r
        /\ vm.Memory = <<>>
        /\ vm.ioctl = "c.ioctl"

C10_Witness ==
    /\ last.op = "CreateVM"
    /\ last.err = Nil
    /\ last.n = 2
    /\ vm.fd = 5
    /\ vm.Memory = <<>>

\* C12: APIVersion makes the get-version request with argument 0 on the handle
\* of the Client, returns the value and the error the primitive reported, and
\* changes nothing; two calls in a row that get the same answer return the
\* same.
C12_ReturnsAnswer ==
    last.op = "APIVersion" =>
        /\ Len(calls) = 1
        /\ calls[1].fd = Fd(pre.kvm)
        /\ calls[1].request = 44544
        /\ ~calls[1].ptr
        /\ calls[1].val = 0
        /\ last.ret = last.resp.r
        /\ last.err = last.resp.err
        /\ client = pre.client
        /\ kvm = pre.kvm
        /\ vm = pre.vm

C12_Repeatable ==
    (last.op = "APIVersion" /\ last'.op = "APIVersion"
        /\ last'.resp = last.resp) =>
        /\ last'.ret = last.ret
        /\ last'.err = last.err

C12_APIVersion == [] C12_ReturnsAnswer /\ [][C12_Repeatable]_vars

C12_Witness ==
    /\ last.op = "APIVersion"
    /\ last.resp = [r |-> 13, err |-> "EINVAL"]
    /\ last.ret = 13
    /\ last.err = "EINVAL"
    /\ kvm.state = "open"

\* C13: New ends in one of two ways: a Client is returned, its descriptor is
\* open and the version reported was 12; or no Client is returned and no
\* descriptor is left open.  When the get-version request fails, New releases
\* the descriptor once and returns the error of the primitive; when the open
\* fails, no request is made.
C13_NewOutcomes ==
    last.op = "New" =>
        /\ \/ /\ client = "held"
              /\ last.err = Nil
              /\ kvm.state = "open"
              /\ last.resp = [r |-> 12, err |-> Nil]
           \/ /\ client = "none"
              /\ last.err # Nil
              /\ kvm.state # "open"
        /\ last.resp.err \in Errnos =>
              /\ last.err = last.resp.err
              /\ last.err # ErrIncorrectVersion
              /\ released = 1
              /\ Len(calls) = 1
        /\ last.err = ErrOpen => calls = <<>>

C13_Witness ==
    /\ last.op = "New"
    /\ last.resp = [r |-> 12, err |-> "EINVAL"]
    /\ last.err = "EINVAL"
    /\ client = "none"
    /\ kvm.state = "closed"

\* C14: in every state of a VM the guest-physical addresses do not decrease in
\* slot order, each slot starts where the previous one ends, and the ranges
\* [GuestPhysAddr, GuestPhysAddr + MemorySize) of two slots do not overlap.
C14_Contiguous ==
    /\ \A i \in 1..(Len(vm.Memory) - 1) :
          /\ vm.Memory[i].GuestPhysAddr <= vm.Memory[i + 1].GuestPhysAddr
          /\ vm.Memory[i + 1].GuestPhysAddr =
                vm.Memory[i].GuestPhysAddr + vm.Memory[i].MemorySize
    /\ \A i, j \in 1..Len(vm.Memory) :
          i # j =>
             \/ vm.Memory[i].GuestPhysAddr + vm.Memory[i].MemorySize
                   <= vm.Memory[j].GuestPhysAddr
             \/ vm.Memory[j].GuestPhysAddr + vm.Memory[j].MemorySize
                   <= vm.Memory[i].GuestPhysAddr

C14_Witness ==
    /\ accepted = <<134217728, 512, 2048, 134217728>>
    /\ Len(vm.Memory) = 4
    /\ vm.Memory[4].GuestPhysAddr = 134220288

\* C15: the record a successful AddMemorySlot(n, flags) appends has the five
\* fields of the payload sent in its request, with the flags and the size of
\* the call and the address of the buffer the record retains; one record is
\* appended.
C15_RecordIsPayload ==
    (last.op = "AddMemorySlot" /\ last.err = Nil /\ ~last.panicked) =>
        /\ Len(calls) = 1
        /\ Len(vm.Memory) = Len(pre.vm.Memory) + 1
        /\ SubSeq(vm.Memory, 1, Len(pre.vm.Memory)) = pre.vm.Memory
        /\ LET s == vm.Memory[Len(vm.Memory)]
               m == calls[1].m
           IN  /\ s.Slot = m.slot
               /\ s.Flags = m.flags
               /\ s.GuestPhysAddr = m.guestPhysAddr
               /\ s.MemorySize = m.memorySize
               /\ s.UserspaceAddr = m.userspaceAddr
               /\ s.Flags = last.flags
               /\ s.MemorySize = last.n
               /\ s.UserspaceAddr = s.memory.addr
               /\ s.memory.len = last.n

C15_Witness ==
    /\ last.op = "AddMemorySlot"
    /\ last.err = Nil
    /\ last.flags = 2
    /\ last.n = 2048
    /\ Len(vm.Memory) = 2
    /\ vm.Memory[2].Flags = 2
    /\ vm.Memory[2].UserspaceAddr = calls[1].m.userspaceAddr

IsPrefix(a, b) == Len(a) <= Len(b) /\ SubSeq(b, 1, Len(a)) = a

\* C16: Memory of a VM only grows at its end: in every step the Memory before
\* is a prefix of the Memory after, records and their buffers included.
C16_Step == vm.exists => (vm'.exists /\ IsPrefix(vm.Memory, vm'.Memory))

C16_AppendOnly == [][C16_Step]_vars

C16_Witness ==
    /\ Len(vm.Memory) = 3
    /\ Len(pre.vm.Memory) = 2
    /\ SubSeq(vm.Memory, 1, 2) = pre.vm.Memory
    /\ vm.vcpufd = 6

\* C17: the requests of AddMemorySlot and AddVCPU are sent on the handle the
\* primitive returned to the CreateVM call of the VM, not on the descriptor of
\* the Client; those of APIVersion and CreateVM are sent on the descriptor of
\* the Client's file, not on the handle of the VM.
C17_Channels ==
    /\ last.op \in {"AddMemorySlot", "AddVCPU"} =>
          \A i \in 1..Len(calls) :
             /\ calls[i].fd = hist.vmfd
             /\ calls[i].fd # pre.kvm.num
    /\ last.op \in {"APIVersion", "CreateVM"} =>
          /\ Len(calls) = 1
          /\ calls[1].fd = Fd(pre.kvm)
          /\ pre.vm.exists => calls[1].fd # pre.vm.fd

C17_Witness ==
    /\ last.op = "AddVCPU"
    /\ Len(calls) = 1
    /\ calls[1].fd = 5
    /\ hist.vmfd = 5
    /\ kvm.state = "closed"

\* C18: AddVCPU(n) with n up to the cap, 0 and the cap included, makes the
\* create-VCPU request with n as scalar argument; the VCPU handle of the VM
\* is the value the most recent successful create-VCPU request returned, and
\* the zero value before the first.
C18_LatestVCPU ==
    /\ (last.op = "AddVCPU" /\ last.n <= 9) =>
          /\ Len(calls) = 1
          /\ calls[1].request = 44609
          /\ ~calls[1].ptr
          /\ calls[1].val = last.n
    /\ vm.exists => vm.vcpufd = hist.vcpu
    /\ ~vm.exists => hist.vcpu = 0

C18_Witness ==
    /\ last.op = "AddVCPU"
    /\ last.n = 9
    /\ pre.vm.vcpufd = 6
    /\ vm.vcpufd = 7
    /\ last.resp = [r |-> 7, err |-> Nil]

\* The regions accepted before the last operation.
AcceptedBefore ==
    IF RegionAccepted THEN SubSeq(accepted, 1, Len(accepted) - 1)
    ELSE accepted

\* C20: AddMemorySlot changes neither the handle nor the VCPU handle of the
\* VM, AddVCPU changes neither the handle nor Memory, whether they succeed or
\* fail; the slot and the address AddMemorySlot sends depend on the regions
\* accepted before only, whatever AddVCPU calls were made in between.
C20_Frame ==
    /\ last.op = "AddMemorySlot" =>
          /\ vm.fd = pre.vm.fd
          /\ vm.vcpufd = pre.vm.vcpufd
          /\ \A i \in 1..Len(calls) :
                /\ calls[i].m.slot = Len(AcceptedBefore)
                /\ calls[i].m.guestPhysAddr = SumSeq(AcceptedBefore)
    /\ last.op = "AddVCPU" =>
          /\ vm.fd = pre.vm.fd
          /\ vm.Memory = pre.vm.Memory

C20_Witness ==
    /\ RegionAccepted
    /\ vm.vcpufd = 7
    /\ Len(vm.Memory) = 2
    /\ calls[1].m.slot = 1
    /\ calls[1].m.guestPhysAddr = 2048

\* C19: two VMs of one Client share no slot state: a call of AddMemorySlot or
\* AddVCPU on one leaves Memory, handle and VCPU handle of the other as they
\* were, each VM holds the regions accepted for it and no others, in buffers
\* of its own, and the first region sent for a VM has slot 0 and address 0
\* whatever was added to the other.
C19_OwnSlots ==
    /\ Len(vm.Memory) = Len(accepted)
    /\ Len(other.vm.Memory) = Len(other.accepted)
    /\ Buffers(vm.Memory) \cap Buffers(other.vm.Memory) = {}
    /\ Len(vm.Memory) >= 1 =>
          vm.Memory[1].Slot = 0 /\ vm.Memory[1].GuestPhysAddr = 0
    /\ Len(other.vm.Memory) >= 1 =>
          other.vm.Memory[1].Slot = 0 /\ other.vm.Memory[1].GuestPhysAddr = 0
    /\ (last.op = "AddMemorySlot" /\ AcceptedBefore = <<>>) =>
          \A i \in 1..Len(calls) :
             calls[i].m.slot = 0 /\ calls[i].m.guestPhysAddr = 0

C19_OtherUntouched ==
    last'.op \in {"AddMemorySlot", "AddVCPU"} => other' = other

C19_SeparateVMs == [] C19_OwnSlots /\ [][C19_OtherUntouched]_vars

C19_Witness ==
    /\ vm.exists
    /\ other.vm.exists
    /\ Len(other.vm.Memory) = 2
    /\ other.vm.vcpufd = 6
    /\ RegionAccepted
    /\ Len(vm.Memory) = 1
    /\ vm.Memory[1].Slot = 0
    /\ vm.Memory[1].GuestPhysAddr = 0

\* The calls past their read of v.Memory that have not yet returned.
InCall == {i \in Threads : conc.t[i].pc # "idle"}

\* The accepted regions whose record append has not yet stored.
Unstored == {i \in Threads : conc.t[i].pc \in {"accepted", "loaded"}}

\* Two records of mem with one slot index, or with guest ranges that overlap.
Clash(mem) ==
    \E i, j \in 1..Len(mem) :
       /\ i < j
       /\ \/ mem[i].Slot = mem[j].Slot
          \/ /\ mem[i].GuestPhysAddr < mem[j].GuestPhysAddr + mem[j].MemorySize
             /\ mem[j].GuestPhysAddr < mem[i].GuestPhysAddr + mem[i].MemorySize

\* C11: while the callers hold one lock around each whole AddMemorySlot call,
\* at most one call is in progress, no two records of VM.Memory share a slot
\* index or overlap, the indices are 0, 1, 2, ..., and every accepted region
\* has its record (none is lost); C11_Witness is the state that callers
\* without the lock reach.
C11_Serialized ==
    (conc # NoConc /\ conc.useLock) =>
       /\ Cardinality(InCall) <= 1
       /\ ~Clash(vm.Memory)
       /\ \A i \in 1..Len(vm.Memory) : vm.Memory[i].Slot = i - 1
       /\ Len(vm.Memory) + Cardinality(Unstored) = Len(accepted)

\* Without the lock: both calls sent the same slot index and the same base,
\* both were accepted and have returned, and VM.Memory ends with two records
\* of that index whose ranges overlap.
C11_Witness ==
    /\ conc # NoConc
    /\ ~conc.useLock
    /\ \A i \in Threads : conc.t[i].pc = "idle" /\ conc.t[i].done = 1
    /\ conc.t[1].m.slot = conc.t[2].m.slot
    /\ conc.t[1].m.guestPhysAddr = conc.t[2].m.guestPhysAddr
    /\ Len(accepted) = Len(vm.Memory)
    /\ Len(vm.Memory) >= 2
    /\ vm.Memory[Len(vm.Memory)].Slot = vm.Memory[Len(vm.Memory) - 1].Slot
    /\ Clash(vm.Memory)

\* Without the lock: both calls were accepted and have returned, and the
\* record of one of them is not in VM.Memory.
C11_LostAppend ==
    /\ conc # NoConc
    /\ ~conc.useLock
    /\ \A i \in Threads : conc.t[i].pc = "idle" /\ conc.t[i].done = 1
    /\ Len(vm.Memory) < Len(accepted)

====
